---- MODULE Spec2Model ----
(***************************************************************************)
(* Model of the todo-list backend: the gin router of backend/main.go, its  *)
(* Prometheus middleware, and the four CRUD handlers of package api        *)
(* working on the single table list(id SERIAL, item TEXT, done BOOLEAN).   *)
(*                                                                         *)
(* Requests are served concurrently, one goroutine per request.  The       *)
(* requests being served form a bag; each walks through the middleware:    *)
(*   next -> returned -> counted -> observed -> (gone)                     *)
(* or, when the handler panics,  next -> panicking -> (gone).              *)
(***************************************************************************)
EXTENDS Integers, Sequences, FiniteSets, Bags, TLC

\* ------------------------------------------------------------------ bounds
\* number of requests that can be in flight at the same time
NumSlots == 2
\* number of requests the server accepts in one run
MaxRequests == 3
\* largest value the id sequence of the table hands out
MaxId == 2

\* item texts a client sends (the empty text is sent too, see Urls)
Items == {"A", "B"}

\* ------------------------------------------------------------ conversions
Digit == <<"0", "1", "2", "3", "4", "5", "6", "7", "8", "9">>

\* rows.Scan of the integer id column into ListItem.Id (a string)
RECURSIVE Itoa(_)
Itoa(n) ==
    IF n < 10 THEN Digit[n + 1] ELSE Itoa(n \div 10) \o Digit[(n % 10) + 1]

\* (variant: the id column is not scanned, ListItem.Id keeps its zero value)
ScanRow_NoId(row) == [Id |-> "", Item |-> row.item, Done |-> row.done]

\* rows.Scan(&item.Id, &item.Item, &item.Done): a table row as a ListItem
ScanRow(row) == [Id |-> Itoa(row.id), Item |-> row.item, Done |-> row.done]

\* the :done path parameter as the boolean stored in the done column
ParseBool(s) == s = "true"

\* net/http StatusText, for the codes this server produces
StatusText(code) ==
    CASE code = 200 -> "OK"
      [] code = 201 -> "Created"
      [] code = 204 -> "No Content"
      [] code = 404 -> "Not Found"
      [] code = 500 -> "Internal Server Error"

\* ------------------------------------------------------------------ router
\* a route pattern segment that starts with ':' is a named parameter
IsParam(seg) == seg \in {":item", ":id", ":done"}

\* (variants of the route table: a route registered with another handler, or
\* with a parameter name the handler does not read)
RoutesWith(i, h) == [j \in 1..6 |->
    IF j = i THEN [path |-> h.path, pattern |-> h.pattern, handler |-> h.handler]
    ELSE (<< [path |-> "/", pattern |-> << >>, handler |-> "indexView"],
             [path |-> "/items", pattern |-> <<"items">>, handler |-> "TodoItems"],
             [path |-> "/item/create/:item", pattern |-> <<"item", "create", ":item">>,
              handler |-> "CreateTodoItem"],
             [path |-> "/item/update/:id/:done",
              pattern |-> <<"item", "update", ":id", ":done">>,
              handler |-> "UpdateTodoItem"],
             [path |-> "/item/delete/:id", pattern |-> <<"item", "delete", ":id">>,
              handler |-> "DeleteTodoItem"],
             [path |-> "/metrics", pattern |-> <<"metrics">>, handler |-> "promhttp"] >>)[j]]

Routes_CreateUpdates ==
    RoutesWith(3, [path |-> "/item/create/:item", pattern |-> <<"item", "create", ":item">>,
                   handler |-> "UpdateTodoItem"])
Routes_UpdateCreates ==
    RoutesWith(4, [path |-> "/item/update/:id/:done",
                   pattern |-> <<"item", "update", ":id", ":done">>,
                   handler |-> "CreateTodoItem"])
Routes_UpdateDeletes ==
    RoutesWith(4, [path |-> "/item/update/:id/:done",
                   pattern |-> <<"item", "update", ":id", ":done">>,
                   handler |-> "DeleteTodoItem"])
Routes_DeleteParam ==
    RoutesWith(5, [path |-> "/item/delete/:item", pattern |-> <<"item", "delete", ":item">>,
                   handler |-> "DeleteTodoItem"])
Routes_DeleteCreates ==
    RoutesWith(5, [path |-> "/item/delete/:id", pattern |-> <<"item", "delete", ":id">>,
                   handler |-> "CreateTodoItem"])

\* the routes registered by SetupRoutes, in registration order
Routes ==
    << [path |-> "/",                       pattern |-> << >>,
        handler |-> "indexView"],
       [path |-> "/items",                  pattern |-> <<"items">>,
        handler |-> "TodoItems"],
       [path |-> "/item/create/:item",      pattern |-> <<"item", "create", ":item">>,
        handler |-> "CreateTodoItem"],
       [path |-> "/item/update/:id/:done",  pattern |-> <<"item", "update", ":id", ":done">>,
        handler |-> "UpdateTodoItem"],
       [path |-> "/item/delete/:id",        pattern |-> <<"item", "delete", ":id">>,
        handler |-> "DeleteTodoItem"],
       [path |-> "/metrics",                pattern |-> <<"metrics">>,
        handler |-> "promhttp"] >>

\* gin's route lookup: a literal segment matches itself, a named parameter
\* matches any non-empty segment
Matches(pattern, url) ==
    /\ Len(pattern) = Len(url)
    /\ \A i \in 1..Len(pattern) :
          IF IsParam(pattern[i]) THEN url[i] # "" ELSE url[i] = pattern[i]

MatchingRoutes(url) == {i \in 1..Len(Routes) : Matches(Routes[i].pattern, url)}

\* c.FullPath(): the matched route's full path, "" when no route matches
FullPath(url) ==
    IF MatchingRoutes(url) = {} THEN ""
    ELSE Routes[CHOOSE i \in MatchingRoutes(url) : TRUE].path

\* the handler the router dispatches the request to
Handler(url) ==
    IF MatchingRoutes(url) = {} THEN "NoRoute"
    ELSE Routes[CHOOSE i \in MatchingRoutes(url) : TRUE].handler

\* c.Param(name): the segment of the url at the position of :name
Param(url, name) ==
    LET rt == Routes[CHOOSE i \in MatchingRoutes(url) : TRUE]
        at == {i \in 1..Len(rt.pattern) : rt.pattern[i] = name}
    IN  IF at = {} THEN "" ELSE url[CHOOSE i \in at : TRUE]

\* the request paths clients send, as sequences of path segments
Urls ==
    {<< >>, <<"items">>, <<"metrics">>}
    \cup {<<"item", "create", t>> : t \in Items \cup {""}}
    \cup {<<"item", "create", "A", "B">>}
    \cup {<<"item", "update", Itoa(i), d>> : i \in 1..(MaxId + 1), d \in {"true", "false"}}
    \cup {<<"item", "delete", Itoa(i)>> : i \in 1..(MaxId + 1)}

\* ------------------------------------------------------------------- state
VARIABLES
    table,               \* rows of table list: [id, item, done]
    seq,                 \* last value handed out by list_id_seq
    reqs,                \* bag of the requests being served
    inFlightRequests,    \* gauge http_in_flight_requests
    httpRequestsTotal,   \* counter vector, by <<method, path, status>>
    httpRequestDuration, \* histogram vector, observation count by <<method, path>>
    started,             \* number of requests accepted so far
    last,                \* the handler call that completed last
    createdLog,          \* the rows inserted so far, in order
    mutated,             \* an update or delete has changed the table
    served,              \* finished non-/metrics requests, by label
    hist                 \* the create, update and delete calls completed, in
                         \* order, when the log is on

vars == <<table, seq, reqs, inFlightRequests, httpRequestsTotal,
          httpRequestDuration, started, last, createdLog, mutated, served, hist>>

dbVars == <<table, seq, createdLog, mutated>>
metricVars == <<inFlightRequests, httpRequestsTotal, httpRequestDuration, served>>

\* a request in the middleware: where it is, its path, whether the gauge
\* counts it, and the status written so far
Request(pc, url, tracked, status) ==
    [pc |-> pc, url |-> url, tracked |-> tracked, status |-> status]

\* the requests being served, with rq replaced by new / with rq gone
Moved(rq, new) == (reqs (-) SetToBag({rq})) (+) SetToBag({new})
Gone(rq) == reqs (-) SetToBag({rq})

\* a label vector's value for a label it may not have seen yet
Value(vec, l) == IF l \in DOMAIN vec THEN vec[l] ELSE 0

\* WithLabelValues(l...).Inc() / .Observe(d)
IncLabel(vec, l) ==
    IF l \in DOMAIN vec THEN [vec EXCEPT ![l] = @ + 1] ELSE vec @@ (l :> 1)

\* -------------------------------------------------------- response bodies
NoBody == [key |-> "", null |-> FALSE, items |-> << >>, message |-> ""]
MessageBody(m) == [NoBody EXCEPT !.key = "message", !.message = m]
TextBody(m) == [NoBody EXCEPT !.key = "text", !.message = m]

\* (variant: var items []ListItem, a nil slice)
MakeSlice_Nil == [nil |-> TRUE, elems |-> << >>]

\* a Go slice of ListItem: nil or not, and its elements; make([]ListItem, 0)
MakeSlice == [nil |-> FALSE, elems |-> << >>]
AppendItem(s, x) == [nil |-> FALSE, elems |-> Append(s.elems, x)]

RECURSIVE ScanRows(_, _, _)
ScanRows(s, rows, i) ==
    IF i > Len(rows) THEN s
    ELSE ScanRows(AppendItem(s, ScanRow(rows[i])), rows, i + 1)

\* gin.H{"items": items}: a nil slice is encoded as null, any other as array
ItemsBody(s) == [NoBody EXCEPT !.key = "items", !.null = s.nil, !.items = s.elems]
ItemBody(x) == [NoBody EXCEPT !.key = "item", !.items = <<x>>]

\* the orders in which SELECT (no ORDER BY) can return the rows
RowOrders(t) ==
    {s \in [1..Cardinality(t) -> t] : \A i, j \in DOMAIN s : s[i] = s[j] => i = j}

\* the server after SetupRoutes, on an empty table
Start ==
    /\ table = {}
    /\ seq = 0
    /\ reqs = EmptyBag
    /\ inFlightRequests = 0
    /\ httpRequestsTotal = << >>
    /\ httpRequestDuration = << >>
    /\ started = 0
    /\ last = [handler |-> "none", url |-> << >>, status |-> 0,
               body |-> NoBody, before |-> {}]
    /\ createdLog = << >>
    /\ mutated = FALSE
    /\ served = << >>

Init == Start /\ hist = [on |-> FALSE, calls |-> << >>]

\* ------------------------------------------------------------- middleware
\* (variant: no test for the /metrics path, every request is tracked)
MiddlewareEnter_NoSkip(url) ==
    /\ BagCardinality(reqs) < NumSlots
    /\ started < MaxRequests
    /\ started' = started + 1
    /\ reqs' = reqs (+) SetToBag({Request("next", url, TRUE, 200)})
    /\ inFlightRequests' = inFlightRequests + 1
    /\ UNCHANGED <<dbVars, httpRequestsTotal, httpRequestDuration, served, last, hist>>

\* prometheusMiddleware up to c.Next(): /metrics is passed through untouched,
\* any other request bumps the in-flight gauge and defers its decrement
MiddlewareEnter(url) ==
    /\ BagCardinality(reqs) < NumSlots
    /\ started < MaxRequests
    /\ started' = started + 1
    /\ LET path == FullPath(url)
       IN  IF path = "/metrics"
           THEN /\ reqs' = reqs (+) SetToBag({Request("next", url, FALSE, 200)})
                /\ UNCHANGED inFlightRequests
           ELSE /\ reqs' = reqs (+) SetToBag({Request("next", url, TRUE, 200)})
                /\ inFlightRequests' = inFlightRequests + 1
    /\ UNCHANGED <<dbVars, httpRequestsTotal, httpRequestDuration, served, last, hist>>

\* the handler has written its response and returned into the middleware
Respond(r, h, st, body, before) ==
    /\ reqs' = Moved(r, [r EXCEPT !.pc = "returned", !.status = st])
    /\ last' = [handler |-> h, url |-> r.url, status |-> st,
                body |-> body, before |-> before]
    /\ hist' = IF hist.on /\ h \in {"CreateTodoItem", "UpdateTodoItem", "DeleteTodoItem"}
               THEN [hist EXCEPT !.calls = Append(@,
                        [url |-> r.url, status |-> st,
                         id |-> IF body.key = "item" THEN body.items[1].Id ELSE "",
                         with |-> {q.url : q \in BagToSet(Gone(r))}])]
               ELSE hist

\* ---------------------------------------------------------------- handlers
InHandler(r, h) == r.pc = "next" /\ Handler(r.url) = h

\* GET /  ->  200 {"message": "TODO APP"}
indexView(r) ==
    /\ InHandler(r, "indexView")
    /\ Respond(r, "indexView", 200, MessageBody("TODO APP"), table)
    /\ UNCHANGED <<dbVars, metricVars, started>>

\* GET /items: SELECT all rows, 200 {"items": [...]}
TodoItems(r) ==
    /\ InHandler(r, "TodoItems")
    /\ \E rows \in RowOrders(table) :
          Respond(r, "TodoItems", 200, ItemsBody(ScanRows(MakeSlice, rows, 1)), table)
    /\ UNCHANGED <<dbVars, metricVars, started>>

\* (variant: the id is computed as MAX(id) + 1 over the rows present)
NextVal_MaxPlusOne(t, s) ==
    IF t = {} THEN 1 ELSE (CHOOSE m \in {row.id : row \in t} : \A row \in t : row.id <= m) + 1

\* nextval('list_id_seq'): the value after the last one handed out
NextVal(t, s) == s + 1

\* GET /item/create/:item: INSERT a row, the sequence assigns its id,
\* done is false; 201 with the created record
CreateTodoItem(r) ==
    /\ InHandler(r, "CreateTodoItem")
    /\ seq < MaxId
    /\ LET row == [id |-> NextVal(table, seq), item |-> Param(r.url, ":item"),
                   done |-> FALSE]
       IN  /\ seq' = row.id
           /\ table' = table \cup {row}
           /\ createdLog' = Append(createdLog, [id |-> row.id, item |-> row.item])
           /\ Respond(r, "CreateTodoItem", 201, ItemBody(ScanRow(row)), table)
    /\ UNCHANGED <<mutated, metricVars, started>>

\* the rows WHERE id = $1 selects
RowsWithId(t, id) == {row \in t : Itoa(row.id) = id}

\* (variant: the row is read first and written back whole with the new flag;
\* a row deleted since it was read comes back)
UpdateTodoItem_WriteBack(r) ==
    /\ InHandler(r, "UpdateTodoItem")
    /\ LET id   == Param(r.url, ":id")
           done == ParseBool(Param(r.url, ":done"))
           read == {i \in 1..Len(createdLog) : Itoa(createdLog[i].id) = id}
       IN  IF read = {}
           THEN /\ Respond(r, "UpdateTodoItem", 404, MessageBody("not found"), table)
                /\ UNCHANGED dbVars
           ELSE /\ table' = (table \ RowsWithId(table, id))
                             \cup {[id |-> createdLog[i].id, item |-> createdLog[i].item,
                                    done |-> done] : i \in read}
                /\ mutated' = TRUE
                /\ Respond(r, "UpdateTodoItem", 200, NoBody, table)
                /\ UNCHANGED <<seq, createdLog>>
    /\ UNCHANGED <<metricVars, started>>

\* GET /item/update/:id/:done: UPDATE list SET done WHERE id; 404 when no
\* row has the id, 200 otherwise
UpdateTodoItem(r) ==
    /\ InHandler(r, "UpdateTodoItem")
    /\ LET hit  == RowsWithId(table, Param(r.url, ":id"))
           done == ParseBool(Param(r.url, ":done"))
       IN  IF hit = {}
           THEN /\ Respond(r, "UpdateTodoItem", 404, MessageBody("not found"), table)
                /\ UNCHANGED dbVars
           ELSE /\ table' = (table \ hit) \cup {[row EXCEPT !.done = done] : row \in hit}
                /\ mutated' = TRUE
                /\ Respond(r, "UpdateTodoItem", 200, NoBody, table)
                /\ UNCHANGED <<seq, createdLog>>
    /\ UNCHANGED <<metricVars, started>>

\* the status of a successful delete: 200 or 204
DeleteSuccess == {200, 204}

\* GET /item/delete/:id: DELETE FROM list WHERE id; 404 when no row has the
\* id, 200 (or 204) otherwise
DeleteTodoItem(r) ==
    /\ InHandler(r, "DeleteTodoItem")
    /\ LET hit == RowsWithId(table, Param(r.url, ":id"))
       IN  IF hit = {}
           THEN /\ Respond(r, "DeleteTodoItem", 404, MessageBody("not found"), table)
                /\ UNCHANGED dbVars
           ELSE /\ table' = table \ hit
                /\ mutated' = TRUE
                /\ \E st \in DeleteSuccess :
                      Respond(r, "DeleteTodoItem", st, NoBody, table)
                /\ UNCHANGED <<seq, createdLog>>
    /\ UNCHANGED <<metricVars, started>>

\* GET /metrics: promhttp.Handler() writes the text exposition
MetricsHandler(r) ==
    /\ InHandler(r, "promhttp")
    /\ Respond(r, "promhttp", 200, TextBody("exposition"), table)
    /\ UNCHANGED <<dbVars, metricVars, started>>

\* no route matches: gin's default 404
NoRoute(r) ==
    /\ InHandler(r, "NoRoute")
    /\ Respond(r, "NoRoute", 404, TextBody("404 page not found"), table)
    /\ UNCHANGED <<dbVars, metricVars, started>>

\* the handler panics before it touches the table or writes a response
HandlerPanic(r) ==
    /\ r.pc = "next"
    /\ reqs' = Moved(r, [r EXCEPT !.pc = "panicking"])
    /\ UNCHANGED <<dbVars, metricVars, started, last, hist>>

\* ------------------------------------------------- middleware, after Next
Method == "GET"
CounterLabel(rq) == <<Method, FullPath(rq.url), StatusText(rq.status)>>
HistogramLabel(rq) == <<Method, FullPath(rq.url)>>

\* /metrics: c.Next() returned, the middleware returns without recording
MetricsReturn(r) ==
    /\ r.pc = "returned"
    /\ ~r.tracked
    /\ reqs' = Gone(r)
    /\ UNCHANGED <<dbVars, metricVars, started, last, hist>>

\* status := c.Writer.Status(); httpRequestsTotal.WithLabelValues(...).Inc()
RecordCounter(r) ==
    /\ r.pc = "returned"
    /\ r.tracked
    /\ httpRequestsTotal' = IncLabel(httpRequestsTotal, CounterLabel(r))
    /\ reqs' = Moved(r, [r EXCEPT !.pc = "counted"])
    /\ UNCHANGED <<dbVars, inFlightRequests, httpRequestDuration, served, started, last, hist>>

\* httpRequestDuration.WithLabelValues(method, path).Observe(duration)
RecordDuration(r) ==
    /\ r.pc = "counted"
    /\ httpRequestDuration' = IncLabel(httpRequestDuration, HistogramLabel(r))
    /\ reqs' = Moved(r, [r EXCEPT !.pc = "observed"])
    /\ UNCHANGED <<dbVars, inFlightRequests, httpRequestsTotal, served, started, last, hist>>

\* the middleware returns: the deferred inFlightRequests.Dec() runs
MiddlewareExit(r) ==
    /\ r.pc = "observed"
    /\ inFlightRequests' = inFlightRequests - 1
    /\ served' = IncLabel(served, CounterLabel(r))
    /\ reqs' = Gone(r)
    /\ UNCHANGED <<dbVars, httpRequestsTotal, httpRequestDuration, started, last, hist>>

\* (variant: Dec() is called after c.Next() instead of being deferred, so a
\* panic skips it)
PanicUnwind_NoDefer(r) ==
    /\ r.pc = "panicking"
    /\ IF r.tracked
       THEN served' = IncLabel(served, CounterLabel([r EXCEPT !.status = 500]))
       ELSE UNCHANGED served
    /\ reqs' = Gone(r)
    /\ UNCHANGED <<dbVars, inFlightRequests, httpRequestsTotal, httpRequestDuration,
                   started, last, hist>>

\* a panic unwinds through the middleware: only the deferred Dec() runs (for
\* a tracked request), then gin's Recovery answers 500
PanicUnwind(r) ==
    /\ r.pc = "panicking"
    /\ IF r.tracked
       THEN /\ inFlightRequests' = inFlightRequests - 1
            /\ served' = IncLabel(served, CounterLabel([r EXCEPT !.status = 500]))
       ELSE UNCHANGED <<inFlightRequests, served>>
    /\ reqs' = Gone(r)
    /\ UNCHANGED <<dbVars, httpRequestsTotal, httpRequestDuration, started, last, hist>>

\* the handlers and the rest of the middleware, for the requests accepted
Serve ==
    \/ \E r \in BagToSet(reqs) : indexView(r)
    \/ \E r \in BagToSet(reqs) : TodoItems(r)
    \/ \E r \in BagToSet(reqs) : CreateTodoItem(r)
    \/ \E r \in BagToSet(reqs) : UpdateTodoItem(r)
    \/ \E r \in BagToSet(reqs) : DeleteTodoItem(r)
    \/ \E r \in BagToSet(reqs) : MetricsHandler(r)
    \/ \E r \in BagToSet(reqs) : NoRoute(r)
    \/ \E r \in BagToSet(reqs) : HandlerPanic(r)
    \/ \E r \in BagToSet(reqs) : MetricsReturn(r)
    \/ \E r \in BagToSet(reqs) : RecordCounter(r)
    \/ \E r \in BagToSet(reqs) : RecordDuration(r)
    \/ \E r \in BagToSet(reqs) : MiddlewareExit(r)
    \/ \E r \in BagToSet(reqs) : PanicUnwind(r)

\* requests of every kind, served concurrently
Accept == \E url \in Urls : MiddlewareEnter(url)

Next == Accept \/ Serve

Spec == Init /\ [][Next]_vars

\* one request at a time: a client that waits for each response before it
\* sends the next request
AcceptSequential ==
    /\ reqs = EmptyBag
    /\ \E url \in Urls : MiddlewareEnter(url)

NextSequential == AcceptSequential \/ Serve

SpecSequential == Init /\ [][NextSequential]_vars

\* concurrent traffic with one request of each kind: every route, a request
\* that matches no route, and /metrics
TrafficUrls ==
    {<< >>, <<"items">>, <<"metrics">>, <<"item", "create", "A">>, <<"item", "create", "">>,
     <<"item", "update", Itoa(1), "true">>, <<"item", "delete", Itoa(1)>>}

AcceptTraffic == \E url \in TrafficUrls : MiddlewareEnter(url)

NextTraffic == AcceptTraffic \/ Serve

SpecTraffic == Init /\ [][NextTraffic]_vars

\* concurrent creates, updates and deletes that meet on one id, with the log
\* of completed calls on
RaceUrls ==
    {<<"item", "create", "A">>, <<"item", "update", Itoa(1), "true">>,
     <<"item", "delete", Itoa(1)>>}

InitRace == Start /\ hist = [on |-> TRUE, calls |-> << >>]

AcceptRace == \E url \in RaceUrls : MiddlewareEnter(url)

ServeRace ==
    \/ \E r \in BagToSet(reqs) : CreateTodoItem(r)
    \/ \E r \in BagToSet(reqs) : UpdateTodoItem(r)
    \/ \E r \in BagToSet(reqs) : DeleteTodoItem(r)
    \/ \E r \in BagToSet(reqs) : HandlerPanic(r)
    \/ \E r \in BagToSet(reqs) : RecordCounter(r)
    \/ \E r \in BagToSet(reqs) : RecordDuration(r)
    \/ \E r \in BagToSet(reqs) : MiddlewareExit(r)
    \/ \E r \in BagToSet(reqs) : PanicUnwind(r)

NextRace == AcceptRace \/ ServeRace

SpecRace == InitRace /\ [][NextRace]_vars

\* ------------------------------------------------------------- properties
Ids(t) == {row.id : row \in t}

\* what GET /items returns for table t, as a set
Listed(t) == {ScanRow(row) : row \in t}

Bijections(n) == {f \in [1..n -> 1..n] : \A i, j \in 1..n : f[i] = f[j] => i = j}

\* the kind of request a url is
IsList(url) == url = <<"items">>
IsCreate(url) == Len(url) >= 3 /\ url[1] = "item" /\ url[2] = "create"
IsUpdate(url) == Len(url) = 4 /\ url[1] = "item" /\ url[2] = "update"
IsDelete(url) == Len(url) = 3 /\ url[1] = "item" /\ url[2] = "delete"

\* the rows of the table before the last call that the url's id names
LastHit == {row \in last.before : Itoa(row.id) = last.url[3]}

\* C1: starting from the empty table, after n successful creates and no other
\* mutating operation, GET /items answers 200 with exactly n items: one per
\* create call with that call's text, every id non-empty and different from
\* the other ids, every done false.
C1_ListAfterCreates ==
    (IsList(last.url) /\ ~mutated) =>
        LET items == last.body.items
            n == Len(createdLog)
        IN  /\ last.status = 200
            /\ last.body.key = "items"
            /\ Len(items) = n
            /\ \E f \in Bijections(n) : \A i \in 1..n : items[f[i]].Item = createdLog[i].item
            /\ \A i \in 1..Len(items) : items[i].Id # "" /\ items[i].Done = FALSE
            /\ \A i, j \in 1..Len(items) : items[i].Id = items[j].Id => i = j

C1_Witness ==
    /\ IsList(last.url)
    /\ ~mutated
    /\ Len(createdLog) = 2
    /\ Len(last.body.items) = 2

\* C2: an update of an existing id with done=v answers 200; afterwards the
\* list shows that item with done=v whatever it was before, with its id and
\* text unchanged, and every other row unchanged.
C2_UpdateExisting ==
    (IsUpdate(last.url) /\ LastHit # {}) =>
        /\ last.status = 200
        /\ Listed(table) =
              (Listed(last.before) \ Listed(LastHit))
              \cup {[ScanRow(row) EXCEPT !.Done = (last.url[4] = "true")] : row \in LastHit}
        /\ Cardinality(table) = Cardinality(last.before)

C2_Witness ==
    /\ IsUpdate(last.url)
    /\ LastHit # {}
    /\ last.status = 200
    /\ \E row \in LastHit : row.done /\ last.url[4] = "false"
    /\ \E row \in table : Itoa(row.id) = last.url[3] /\ ~row.done

\* C3: a delete of an existing id answers 200 or 204; afterwards the list
\* excludes exactly that item and still has every other item, unchanged.
C3_DeleteExisting ==
    (IsDelete(last.url) /\ LastHit # {}) =>
        /\ last.status \in {200, 204}
        /\ Cardinality(LastHit) = 1
        /\ Listed(table) = Listed(last.before) \ Listed(LastHit)
        /\ Cardinality(table) = Cardinality(last.before) - 1

C3_Witness ==
    /\ IsDelete(last.url)
    /\ LastHit # {}
    /\ Cardinality(last.before) = 2
    /\ Cardinality(table) = 1

\* C4: an update whose id matches no row answers 404 {"message": "not found"}
\* and leaves the table as it was, whatever the done parameter.
C4_UpdateMissing ==
    (IsUpdate(last.url) /\ LastHit = {}) =>
        /\ last.status = 404
        /\ last.body = MessageBody("not found")
        /\ table = last.before

C4_Witness ==
    /\ IsUpdate(last.url)
    /\ LastHit = {}
    /\ last.before # {}
    /\ last.url[4] = "true"
    /\ last.status = 404

\* C5: a delete whose id matches no row (also an id deleted earlier) answers
\* 404 {"message": "not found"} and leaves the table as it was.
C5_DeleteMissing ==
    (IsDelete(last.url) /\ LastHit = {}) =>
        /\ last.status = 404
        /\ last.body = MessageBody("not found")
        /\ table = last.before

\* the id was handed out and its row has been deleted since
C5_Witness ==
    /\ IsDelete(last.url)
    /\ LastHit = {}
    /\ \E i \in 1..Len(createdLog) : Itoa(createdLog[i].id) = last.url[3]
    /\ last.status = 404

\* the created record of the last call, when it answered with one
CreatedAsClaimed(text) ==
    /\ last.status = 201
    /\ last.body.key = "item"
    /\ \E row \in table \ last.before :
          /\ table = last.before \cup {row}
          /\ row.id \notin Ids(last.before)
          /\ last.body.items = <<ScanRow(row)>>
          /\ ScanRow(row).Id # ""
          /\ ScanRow(row).Item = text
          /\ ScanRow(row).Done = FALSE

\* C6 as stated: every create request, for any item text including the empty
\* one, inserts exactly one row and answers 201 with the created record.
C6_AnyTextCreates ==
    IsCreate(last.url) =>
        Len(last.url) = 3 /\ CreatedAsClaimed(last.url[3])

\* C6, amended: every create request whose item text is one non-empty path
\* segment, also a text already in the table, inserts exactly one row and
\* answers 201 with the created record (item = the text, done = false, id =
\* the non-empty id assigned to the new row); no other row changes.
C6_NonEmptyTextCreates ==
    (IsCreate(last.url) /\ Len(last.url) = 3 /\ last.url[3] # "") =>
        CreatedAsClaimed(last.url[3])

\* a second row with the text of a row already present
C6_Witness ==
    /\ IsCreate(last.url)
    /\ Len(last.url) = 3
    /\ last.url[3] # ""
    /\ \E row \in last.before : row.item = last.url[3]
    /\ Cardinality(table) = 2

\* C7: listing an empty table, never populated or emptied again, answers 200
\* with {"items": []}: the key is there and is an empty array, never null.
C7_EmptyList ==
    (IsList(last.url) /\ last.before = {}) =>
        /\ last.status = 200
        /\ last.body.key = "items"
        /\ ~last.body.null
        /\ last.body.items = << >>

\* the table was populated and emptied again before the list
C7_Witness ==
    /\ IsList(last.url)
    /\ last.before = {}
    /\ Len(createdLog) > 0
    /\ last.status = 200

\* C8: no two rows share an id, every newly assigned id is greater than all
\* ids assigned before it (a deleted item's id is not given out again), and a
\* row keeps the id it was created with.
C8_IdsUniqueMonotonic ==
    /\ \A r1, r2 \in table : r1.id = r2.id => r1 = r2
    /\ \A i, j \in 1..Len(createdLog) : i < j => createdLog[i].id < createdLog[j].id
    /\ \A row \in table :
          \E i \in 1..Len(createdLog) :
             createdLog[i].id = row.id /\ createdLog[i].item = row.item

\* a create after the delete of an earlier row
C8_Witness ==
    /\ Len(createdLog) = 2
    /\ createdLog[1].id \notin Ids(table)
    /\ createdLog[2].id \in Ids(table)
    /\ mutated

\* the requests being served that pass the test
Serving(Test(_)) == [rq \in {x \in BagToSet(reqs) : Test(x)} |-> reqs[rq]]

IsTracked(rq) == rq.tracked
IsRecorded(rq) == rq.pc \in {"counted", "observed"}
IsObserved(rq) == rq.pc = "observed"

\* the requests between the gauge's Inc() and its deferred Dec()
InsideMiddleware == Serving(IsTracked)

\* C9: the gauge goes up once when a non-/metrics request enters the
\* middleware and down once when it leaves, by return or by panic: it is
\* never negative, equals the number of such requests inside the middleware,
\* and is 0 when no request is being served.
C9_GaugeCountsInside ==
    /\ inFlightRequests >= 0
    /\ inFlightRequests = BagCardinality(InsideMiddleware)
    /\ (reqs = EmptyBag => inFlightRequests = 0)

\* one request has left by panic while another is still inside
C9_Witness ==
    /\ \E l \in DOMAIN served : l[3] = "Internal Server Error"
    /\ \E rq \in BagToSet(reqs) : rq.tracked /\ rq.pc = "returned"
    /\ inFlightRequests = 1

RECURSIVE TotalOver(_, _)
TotalOver(vec, ls) ==
    IF ls = {} THEN 0
    ELSE LET l == CHOOSE x \in ls : TRUE IN vec[l] + TotalOver(vec, ls \ {l})

\* the sum of a label vector's values
Total(vec) == TotalOver(vec, DOMAIN vec)

\* C10: every request through the middleware, except /metrics, increments
\* the requests counter exactly once, under its method, route path and
\* response status, and records exactly one duration, however it ends
\* (success, 404 or handler panic).
C10_CountedOnce ==
    /\ \A l \in DOMAIN served \cup DOMAIN httpRequestsTotal :
          Value(httpRequestsTotal, l) =
             Value(served, l)
             + BagCardinality(
                  [rq \in {x \in BagToSet(reqs) : IsRecorded(x) /\ CounterLabel(x) = l}
                      |-> reqs[rq]])
    /\ Total(httpRequestDuration) =
          Total(served) + BagCardinality(Serving(IsObserved))

\* a step taken by a request to /metrics: it arrives, is handled, or leaves
MetricsRequestStep ==
    \E rq \in BagToSet(reqs) \cup BagToSet(reqs') :
        /\ rq.url = <<"metrics">>
        /\ CopiesIn(rq, reqs) # CopiesIn(rq, reqs')

\* C11: a request to /metrics runs its handler but leaves the three metrics
\* as they are: the in-flight gauge is neither incremented nor decremented,
\* the requests counter is not incremented and no duration is observed.
C11_MetricsUntouched ==
    [][MetricsRequestStep =>
          UNCHANGED <<inFlightRequests, httpRequestsTotal, httpRequestDuration>>]_vars

\* a scrape has been answered and has left, with requests counted before it
\* and another request still in flight
C11_Witness ==
    /\ last.handler = "promhttp"
    /\ \A rq \in BagToSet(reqs) : rq.url # <<"metrics">>
    /\ httpRequestsTotal # << >>
    /\ httpRequestDuration # << >>
    /\ inFlightRequests = 1

\* ---- the operations run one after another, as sections 4.2 to 4.4 of the
\* specification describe them: the table and sequence after the request,
\* the statuses it may answer with, and the id it reports
SeqCreate(st, text) ==
    LET row == [id |-> st.seq + 1, item |-> text, done |-> FALSE]
    IN  [table |-> st.table \cup {row}, seq |-> st.seq + 1,
         statuses |-> {201}, id |-> Itoa(row.id)]

SeqUpdate(st, id, done) ==
    LET hit == {row \in st.table : Itoa(row.id) = id}
    IN  IF hit = {}
        THEN [table |-> st.table, seq |-> st.seq, statuses |-> {404}, id |-> ""]
        ELSE [table |-> (st.table \ hit) \cup {[row EXCEPT !.done = done] : row \in hit},
              seq |-> st.seq, statuses |-> {200}, id |-> ""]

SeqDelete(st, id) ==
    LET hit == {row \in st.table : Itoa(row.id) = id}
    IN  IF hit = {}
        THEN [table |-> st.table, seq |-> st.seq, statuses |-> {404}, id |-> ""]
        ELSE [table |-> st.table \ hit, seq |-> st.seq, statuses |-> {200, 204}, id |-> ""]

SeqStep(st, url) ==
    IF IsCreate(url) THEN SeqCreate(st, url[3])
    ELSE IF IsUpdate(url) THEN SeqUpdate(st, url[3], url[4] = "true")
    ELSE SeqDelete(st, url[3])

\* the calls, run one after another in the order f from state st, answer as
\* they did and end in the table and sequence of the current state
RECURSIVE Replays(_, _, _, _)
Replays(calls, f, k, st) ==
    IF k > Len(calls) THEN st.table = table /\ st.seq = seq
    ELSE LET c   == calls[f[k]]
             res == SeqStep(st, c.url)
         IN  /\ c.status \in res.statuses
             /\ c.id = res.id
             /\ Replays(calls, f, k + 1, res)

Succeeded(c) == c.status \in {200, 201, 204}

\* the row the call's id names was in the table when the call ran
ExistedAt(calls, i) ==
    \E k \in 1..(i - 1) :
        /\ IsCreate(calls[k].url)
        /\ calls[k].id = calls[i].url[3]
        /\ \A m \in (k + 1)..(i - 1) :
              ~(IsDelete(calls[m].url) /\ calls[m].url[3] = calls[i].url[3]
                /\ Succeeded(calls[m]))

TypeOK ==
    /\ seq \in 0..MaxId
    /\ inFlightRequests \in Int
    /\ started \in 0..MaxRequests
    /\ BagCardinality(reqs) <= NumSlots
    /\ \A rq \in BagToSet(reqs) : rq.pc \in
          {"next", "returned", "counted", "observed", "panicking"}

====
